---- MODULE Spec2Model ----
(***************************************************************************)
(* Model of geniusSearch (src/src/search/genius.ts): one HTTP GET against  *)
(* the Genius multi-search endpoint, followed by the normalisation of the  *)
(* sections of the answer into a list of SongResponse records and by the   *)
(* optional truncation of that list.                                       *)
(*                                                                         *)
(* A call suspends once, at the await of axios.get.  Request is the part   *)
(* of the call before the await, FetchOk and FetchFail are the two ways    *)
(* the await ends, each followed by the rest of the function body.         *)
(***************************************************************************)
EXTENDS Integers, Sequences, FiniteSets, TLC

VARIABLES pc, search, options, requests, data, songsResponse, result, logged, propagated

vars == <<pc, search, options, requests, data, songsResponse, result, logged, propagated>>

----------------------------------------------------------------------------
(* Bounds of the inputs *)

\* most sections in one payload
MaxSections == 2
\* most hits in one payload, all sections together (a section without a
\* hits field counts for one)
MaxHits == 2
\* largest limit a caller passes
MaxLimit == 2

----------------------------------------------------------------------------
(* Payload universe: values of the interfaces PrimaryArtist, Song, Hit,    *)
(* Section, ApiResponse.  A field value <<x, "f">> stands for the string   *)
(* the upstream service puts in field f of record x.                       *)

RawArtist(n, v) ==
  [ id |-> <<n, "id">>, name |-> n, slug |-> <<n, "slug">>, is_verified |-> v,
    image_url |-> <<n, "image_url">>, header_image_url |-> <<n, "header_image_url">>,
    url |-> <<n, "url">>, api_path |-> <<n, "api_path">> ]

ArtistA == RawArtist("A", TRUE)
ArtistB == RawArtist("B", FALSE)
ArtistC == RawArtist("C", TRUE)

\* a Song record with its primary_artists field
RawSong(t, pa) ==
  [ id |-> <<t, "id">>, title |-> t, full_title |-> <<t, "full_title">>,
    relationships_index_url |-> <<t, "relationships_index_url">>,
    url |-> <<t, "url">>,
    header_image_url |-> <<t, "header_image_url">>,
    header_image_thumbnail_url |-> <<t, "header_image_thumbnail_url">>,
    release_date_for_display |-> <<t, "release_date_for_display">>,
    path |-> <<t, "path">>,
    primary_artists |-> pa ]

\* a Song record the upstream service sent without primary_artists
RawSongNoArtists(t) ==
  [ id |-> <<t, "id">>, title |-> t, full_title |-> <<t, "full_title">>,
    relationships_index_url |-> <<t, "relationships_index_url">>,
    url |-> <<t, "url">>,
    header_image_url |-> <<t, "header_image_url">>,
    header_image_thumbnail_url |-> <<t, "header_image_thumbnail_url">>,
    release_date_for_display |-> <<t, "release_date_for_display">>,
    path |-> <<t, "path">> ]

\* an Album record, as the upstream service puts them in the same sections:
\* no title, and primary artists of its own
RawAlbum(n, pa) ==
  [ id |-> <<n, "id">>, name |-> n, full_title |-> <<n, "full_title">>,
    url |-> <<n, "url">>, cover_art_url |-> <<n, "cover_art_url">>,
    release_date_for_display |-> <<n, "release_date_for_display">>,
    primary_artists |-> pa ]

RawHit(k, r) == [ type |-> k, index |-> k, result |-> r ]

HitUniverse ==
  { RawHit("song", RawSong("t1", <<ArtistA, ArtistB, ArtistC>>)),
    RawHit("song", RawSong("t2", <<>>)),
    RawHit("song", RawSongNoArtists("t3")),
    RawHit("album", RawAlbum("al", <<ArtistB>>)) }

SectionTypes == {"top_hit", "song", "lyric", "album"}

\* what a section holds: its number of hits, or NoHits when the section
\* came without a hits field
NoHits == 0 - 1
SectionShapes == {NoHits} \cup (0..MaxHits)

RECURSIVE Cost(_, _)
\* the size of the sections i..Len(shape) of a payload: the hits they hold,
\* a section without a hits field counting for one
Cost(shape, i) ==
  IF i > Len(shape) THEN 0
  ELSE (IF shape[i] = NoHits THEN 1 ELSE shape[i]) + Cost(shape, i + 1)

RECURSIVE HitCount(_, _)
\* the number of hits in the sections 1..i of a payload
HitCount(shape, i) ==
  IF i = 0 THEN 0
  ELSE (IF shape[i] = NoHits THEN 0 ELSE shape[i]) + HitCount(shape, i - 1)

\* the payload whose i-th section has type types[i] and holds the next
\* shape[i] hits of hs
MkPayload(types, shape, hs) ==
  [ meta |-> [status |-> "ok"],
    response |->
      [ sections |->
          [ i \in 1..Len(types) |->
              IF shape[i] = NoHits
              THEN [ type |-> types[i] ]
              ELSE [ type |-> types[i],
                     hits |-> SubSeq(hs, HitCount(shape, i - 1) + 1, HitCount(shape, i)) ] ] ] ]

NoData == [ meta |-> [status |-> "none"] ]

Queries == {"bohemian rhapsody", "queen"}

Limits == {0 - 1} \cup (0..MaxLimit)

\* options: not passed, passed without a limit, passed with a limit
OptionsSet ==
  { [given |-> FALSE, limit |-> <<>>] }
    \cup { [given |-> TRUE, limit |-> l] : l \in { <<>> } \cup { <<n>> : n \in Limits } }

FetchFailures == {"connection", "status", "parse"}

----------------------------------------------------------------------------
(* The function body after the await *)

\* variant of HitsOfFirst: the last section of type t is taken, not the first
HitsOfLast(sections, t) ==
  LET matching == SelectSeq(sections, LAMBDA s : s.type = t)
  IN  IF Len(matching) = 0 THEN <<>>
      ELSE IF "hits" \in DOMAIN matching[Len(matching)] THEN matching[Len(matching)].hits
      ELSE <<>>

\* sections.filter(section => section.type === t)[0]?.hits || []
HitsOfFirst(sections, t) ==
  LET matching == SelectSeq(sections, LAMBDA s : s.type = t)
  IN  IF Len(matching) = 0 THEN <<>>
      ELSE IF "hits" \in DOMAIN matching[1] THEN matching[1].hits
      ELSE <<>>

RECURSIVE DropRepeated(_, _)
\* hits without the hits whose result id is in seen or came earlier in hits
DropRepeated(hits, seen) ==
  IF hits = <<>> THEN <<>>
  ELSE IF Head(hits).result.id \in seen THEN DropRepeated(Tail(hits), seen)
  ELSE <<Head(hits)>> \o DropRepeated(Tail(hits), seen \cup {Head(hits).result.id})

\* variant of Songs: the type filter is left out
SongsUnfiltered(d) ==
  HitsOfFirst(d.response.sections, "top_hit")
    \o HitsOfFirst(d.response.sections, "song")
    \o HitsOfFirst(d.response.sections, "lyric")

\* variant of Songs: a song is kept once, at its first place
SongsDeduplicated(d) ==
  DropRepeated(SelectSeq(SongsUnfiltered(d), LAMBDA hit : hit.type = "song"), {})

\* topHit.concat(song, lyric).filter(hit => hit.type === 'song')
Songs(d) ==
  LET topHit == HitsOfFirst(d.response.sections, "top_hit")
      song   == HitsOfFirst(d.response.sections, "song")
      lyric  == HitsOfFirst(d.response.sections, "lyric")
  IN  SelectSeq(topHit \o song \o lyric, LAMBDA hit : hit.type = "song")

\* for (const artist of song.result.primary_artists) throws a TypeError when
\* the field is undefined
Iterable(r) == "primary_artists" \in DOMAIN r

\* r.f in JavaScript: undefined when the object has no such property
Get(r, f) == IF f \in DOMAIN r THEN r[f] ELSE "undefined"

\* variant of ArtistInfoOf: the artists are added at the front (unshift)
ArtistInfoReversed(r) ==
  [ i \in 1..Len(r.primary_artists) |->
      LET artist == r.primary_artists[Len(r.primary_artists) + 1 - i]
      IN  [ name             |-> Get(artist, "name"),
            is_verified      |-> Get(artist, "is_verified"),
            header_image_url |-> Get(artist, "header_image_url"),
            image_url        |-> Get(artist, "image_url") ] ]

\* the inner loop: one ArtistInfo per primary artist
ArtistInfoOf(r) ==
  [ i \in 1..Len(r.primary_artists) |->
      [ name             |-> Get(r.primary_artists[i], "name"),
        is_verified      |-> Get(r.primary_artists[i], "is_verified"),
        header_image_url |-> Get(r.primary_artists[i], "header_image_url"),
        image_url        |-> Get(r.primary_artists[i], "image_url") ] ]

\* the object pushed on songsResponse for one song
SongResponseOf(hit) ==
  [ title                      |-> Get(hit.result, "title"),
    full_title                 |-> Get(hit.result, "full_title"),
    url_song                   |-> Get(hit.result, "relationships_index_url"),
    url_lyric                  |-> Get(hit.result, "url"),
    header_image_url           |-> Get(hit.result, "header_image_url"),
    header_image_thumbnail_url |-> Get(hit.result, "header_image_thumbnail_url"),
    date                       |-> Get(hit.result, "release_date_for_display"),
    artist                     |-> ArtistInfoOf(hit.result) ]

RECURSIVE BuildResponses(_, _)
\* the outer loop from songs[i] on, acc being songsResponse so far; it stops
\* at the first song whose primary_artists cannot be iterated
BuildResponses(songs, acc) ==
  IF songs = <<>> THEN [thrown |-> FALSE, out |-> acc]
  ELSE IF ~Iterable(Head(songs).result) THEN [thrown |-> TRUE, out |-> acc]
  ELSE BuildResponses(Tail(songs), Append(acc, SongResponseOf(Head(songs))))

\* variant of Normalize: [0].hits without the optional chaining, a TypeError
\* as soon as one of the three sections is not there
NormalizeStrict(d) ==
  IF \E t \in {"top_hit", "song", "lyric"} :
       \A i \in 1..Len(d.response.sections) : d.response.sections[i].type # t
  THEN [thrown |-> TRUE, out |-> <<>>]
  ELSE BuildResponses(Songs(d), <<>>)

\* variant of Normalize: a song that cannot be projected is passed over
NormalizeSkipping(d) ==
  BuildResponses(SelectSeq(Songs(d), LAMBDA hit : Iterable(hit.result)), <<>>)

\* lines 16-52: the sections to songsResponse
Normalize(d) == BuildResponses(Songs(d), <<>>)

Max(a, b) == IF a >= b THEN a ELSE b
Min(a, b) == IF a <= b THEN a ELSE b

\* Array.prototype.slice(0, end), a negative end counting from the end
Slice(s, end) ==
  LET e == IF end < 0 THEN Max(Len(s) + end, 0) ELSE Min(end, Len(s))
  IN  SubSeq(s, 1, e)

Undefined == [kind |-> "undefined", value |-> <<>>]
Array(s) == [kind |-> "array", value |-> s]

\* if (options?.limit): the limit is there and is not 0
LimitTruthy(o) == o.given /\ o.limit # <<>> /\ o.limit[1] # 0

\* variant of Truncate: without a limit the whole list is returned
TruncateOrAll(sr, o) ==
  IF LimitTruthy(o)
  THEN LET limit == o.limit[1]
       IN  IF limit >= Len(sr) THEN Array(sr) ELSE Array(Slice(sr, limit))
  ELSE Array(sr)

\* lines 55-65, and the end of the try block when the if is not taken
Truncate(sr, o) ==
  IF LimitTruthy(o)
  THEN LET limit == o.limit[1]
       IN  IF limit >= Len(sr) THEN Array(sr) ELSE Array(Slice(sr, limit))
  ELSE Undefined

----------------------------------------------------------------------------
(* The call *)

Init ==
  /\ pc = "start"
  /\ search \in Queries
  /\ options \in OptionsSet
  /\ requests = 0
  /\ data = NoData
  /\ songsResponse = <<>>
  /\ result = Undefined
  /\ logged = 0
  /\ propagated = FALSE

\* the call up to the await: axios.get is issued
Request ==
  /\ pc = "start"
  /\ pc' = "awaiting"
  /\ requests' = requests + 1
  /\ UNCHANGED <<search, options, data, songsResponse, result, logged, propagated>>

\* variant of FetchFail: no catch block, the rejection leaves the function
FetchFailUncaught(f) ==
  /\ pc = "awaiting"
  /\ pc' = "done"
  /\ data' = [ meta |-> [status |-> f] ]
  /\ propagated' = TRUE
  /\ UNCHANGED <<search, options, requests, songsResponse, result, logged>>

\* the await rejects (no connection, a status outside 2xx, a body that is
\* not JSON): the catch block logs and returns undefined
FetchFail(f) ==
  /\ pc = "awaiting"
  /\ pc' = "done"
  /\ data' = [ meta |-> [status |-> f] ]
  /\ logged' = logged + 1
  /\ result' = Undefined
  /\ propagated' = FALSE
  /\ UNCHANGED <<search, options, requests, songsResponse>>

\* the await resolves with payload d: normalisation, then either the
\* truncation or, when the loop threw, the catch block
FetchOk(d) ==
  /\ pc = "awaiting"
  /\ pc' = "done"
  /\ data' = d
  /\ LET n == Normalize(d)
     IN  /\ songsResponse' = n.out
         /\ IF n.thrown
            THEN /\ logged' = logged + 1
                 /\ result' = Undefined
            ELSE /\ logged' = logged
                 /\ result' = Truncate(n.out, options)
  /\ propagated' = FALSE
  /\ UNCHANGED <<search, options, requests>>

Next ==
  \/ Request
  \/ pc = "awaiting" /\ \E f \in FetchFailures : FetchFail(f)
  \/ /\ pc = "awaiting"
     /\ \E k \in 0..MaxSections :
          \E types \in [1..k -> SectionTypes], shape \in [1..k -> SectionShapes] :
            /\ Cost(shape, 1) <= MaxHits
            /\ \E hs \in [1..HitCount(shape, k) -> HitUniverse] :
                 FetchOk(MkPayload(types, shape, hs))

Spec == Init /\ [][Next]_vars

----------------------------------------------------------------------------
(* Vocabulary of the properties.  These definitions read the payload the   *)
(* call received (data) and say which entries the result is about; they    *)
(* use none of the operators of the function body above.                   *)

Done == pc = "done"
\* the request was answered with a payload
Fetched == data.meta.status = "ok"
\* the call went through the normalisation without an error
Completed == Done /\ Fetched /\ logged = 0

HasLimit == options.given /\ options.limit # <<>>
SuppliedLimit == options.limit[1]

Tags == {"top_hit", "song", "lyric"}

TaggedAt(t) ==
  { i \in 1..Len(data.response.sections) : data.response.sections[i].type = t }

\* the entries of the first section tagged t, none when no section is
EntriesTagged(t) ==
  IF TaggedAt(t) = {} THEN <<>>
  ELSE LET first == CHOOSE i \in TaggedAt(t) : \A j \in TaggedAt(t) : i <= j
       IN  IF "hits" \in DOMAIN data.response.sections[first]
           THEN data.response.sections[first].hits
           ELSE <<>>

RECURSIVE OnlySongs(_)
OnlySongs(entries) ==
  IF entries = <<>> THEN <<>>
  ELSE (IF Head(entries).type = "song" THEN <<Head(entries)>> ELSE <<>>)
         \o OnlySongs(Tail(entries))

\* all entries of the three selected sections, in priority order
SelectedEntries ==
  EntriesTagged("top_hit") \o EntriesTagged("song") \o EntriesTagged("lyric")

\* the song entries of the three selected sections, in priority order
SelectedSongEntries ==
  OnlySongs(EntriesTagged("top_hit")) \o OnlySongs(EntriesTagged("song"))
    \o OnlySongs(EntriesTagged("lyric"))

Range(q) == { q[i] : i \in 1..Len(q) }

Occurrences(q, e) == Cardinality({ i \in 1..Len(q) : q[i] = e })

\* the entry carries a primary-artist sequence
WellFormed(e) == "primary_artists" \in DOMAIN e.result

\* record rec carries the title and the lyric URL of entry e
RecordOf(rec, e) ==
  /\ "title" \in DOMAIN e.result /\ rec.title = e.result.title
  /\ rec.url_lyric = e.result.url

FirstN(q, n) == [ i \in 1..n |-> q[i] ]

----------------------------------------------------------------------------
(* Truncation *)

\* C1 (as stated): for a non-empty normalised sequence R and a supplied limit
\* L >= 0, L = 0 included, the call returns R when L >= |R| and the first L
\* elements of R otherwise.
C1_TruncationLawFromZero ==
  (Completed /\ songsResponse # <<>> /\ HasLimit /\ SuppliedLimit >= 0)
    => /\ result.kind = "array"
       /\ result.value = IF SuppliedLimit >= Len(songsResponse)
                         THEN songsResponse
                         ELSE FirstN(songsResponse, SuppliedLimit)

\* The same law for the limits L >= 1, with what the call returns for L = 0.
TruncationLawPositive ==
  (Completed /\ songsResponse # <<>> /\ HasLimit /\ SuppliedLimit >= 0)
    => IF SuppliedLimit = 0
       THEN result.kind = "undefined"
       ELSE /\ result.kind = "array"
            /\ result.value = IF SuppliedLimit >= Len(songsResponse)
                              THEN songsResponse
                              ELSE FirstN(songsResponse, SuppliedLimit)

----------------------------------------------------------------------------
(* Section merge and entity filter *)

\* C2: the untruncated output lists the song entries of the first top_hit
\* section, then of the first song section, then of the first lyric section,
\* each in its section's order, wherever the sections stand in the payload;
\* later sections with a tag already seen add nothing.  A limit at least as
\* large as the output returns exactly that output.
C2_SectionPriorityOrder ==
  Completed =>
    /\ Len(songsResponse) = Len(SelectedSongEntries)
    /\ \A i \in 1..Len(songsResponse) : RecordOf(songsResponse[i], SelectedSongEntries[i])
    /\ (HasLimit /\ SuppliedLimit >= Len(songsResponse) /\ SuppliedLimit >= 1)
         => result = [kind |-> "array", value |-> songsResponse]

\* a payload whose song section comes before its top_hit section, each with
\* a different song: the top_hit song is first in the output
C2_Witness ==
  /\ Completed
  /\ Len(data.response.sections) = 2
  /\ data.response.sections[1].type \in {"song", "lyric"}
  /\ data.response.sections[2].type = "top_hit"
  /\ Len(EntriesTagged("top_hit")) = 1
  /\ Len(songsResponse) = 2
  /\ songsResponse[1].title # songsResponse[2].title
  /\ songsResponse[1].title = EntriesTagged("top_hit")[1].result.title
  /\ result.kind = "array" /\ Len(result.value) = 2

\* C3: every record of the list built, and of the list returned, comes from
\* an entry of kind "song" of the three selected sections; an entry of any
\* other kind in these sections gives no record; and when the normalisation
\* finishes, every song entry of these sections has given one record.
C3_EntityFilter ==
  (Done /\ Fetched) =>
    /\ \A i \in 1..Len(songsResponse) :
         \E e \in Range(SelectedSongEntries) : RecordOf(songsResponse[i], e)
    /\ \A i \in 1..Len(result.value) :
         \E e \in Range(SelectedSongEntries) : RecordOf(result.value[i], e)
    /\ \A e \in Range(SelectedEntries) :
         e.type # "song" =>
           \A i \in 1..Len(songsResponse) : songsResponse[i].url_lyric # e.result.url
    /\ logged = 0 =>
         \A e \in Range(SelectedSongEntries) :
           \E i \in 1..Len(songsResponse) : RecordOf(songsResponse[i], e)

\* an album and a song in the selected sections: one record is returned
C3_Witness ==
  /\ Completed
  /\ \E e \in Range(SelectedEntries) : e.type = "album"
  /\ \E e \in Range(SelectedEntries) : e.type = "song"
  /\ result.kind = "array"
  /\ Len(result.value) = 1

\* C9 (as stated): a song entry present in more than one of the selected
\* sections appears only once in the output (here: in an output that the
\* limit does not cut).
C9_DeduplicatedAcrossSections ==
  (Completed /\ result.kind = "array" /\ SuppliedLimit >= Len(songsResponse)) =>
    \A e \in Range(SelectedSongEntries) :
      Cardinality({ t \in Tags : e \in Range(EntriesTagged(t)) }) >= 2
        => Cardinality({ i \in 1..Len(result.value) : RecordOf(result.value[i], e) }) = 1

\* C9 (amended): the sections are concatenated, nothing is deduplicated: a
\* song entry gives one record for each of its occurrences in the selected
\* sections.
C9_OneRecordPerOccurrence ==
  Completed =>
    \A e \in Range(SelectedSongEntries) :
      Cardinality({ i \in 1..Len(songsResponse) : RecordOf(songsResponse[i], e) })
        = Occurrences(EntriesTagged("top_hit"), e) + Occurrences(EntriesTagged("song"), e)
            + Occurrences(EntriesTagged("lyric"), e)

\* the same song in the top_hit and in the song section: two records
C9_Witness ==
  /\ Completed
  /\ \E e \in Range(EntriesTagged("top_hit")) :
       /\ e.type = "song"
       /\ e \in Range(EntriesTagged("song"))
  /\ Len(songsResponse) = 2
  /\ songsResponse[1] = songsResponse[2]
  /\ result = [kind |-> "array", value |-> songsResponse]

----------------------------------------------------------------------------
(* Return value *)

C5_FailureIsolation ==
  /\ requests <= 1
  /\ ~propagated
  /\ data.meta.status \in FetchFailures =>
       /\ Done
       /\ requests = 1
       /\ result.kind = "undefined"
       /\ songsResponse = <<>>

\* a refused connection, for a call that passed a limit
C5_Witness ==
  /\ Done
  /\ data.meta.status = "connection"
  /\ HasLimit /\ SuppliedLimit = 1
  /\ logged = 1
  /\ requests = 1

\* C6: a payload of well-formed entries in which some of the sections
\* top_hit, song, lyric are missing (all three included) raises no error:
\* the result is built from the sections that are there, and with a limit
\* (a positive integer) supplied the outcome is a sequence, the empty one
\* when no entry matches.
C6_GracefulDegradation ==
  ( /\ Done /\ Fetched
    /\ \E t \in Tags : TaggedAt(t) = {}
    /\ \A e \in Range(SelectedSongEntries) : WellFormed(e) )
    => /\ logged = 0
       /\ ~propagated
       /\ Len(songsResponse) = Len(SelectedSongEntries)
       /\ (HasLimit /\ SuppliedLimit >= 1) =>
            /\ result.kind = "array"
            /\ SelectedSongEntries = <<>> => result.value = <<>>
            /\ Len(result.value) = IF SuppliedLimit >= Len(SelectedSongEntries)
                                   THEN Len(SelectedSongEntries) ELSE SuppliedLimit

\* a payload with no lyric and no song section, a song in its top_hit
\* section, limit 1: that song is returned
C6_Witness ==
  /\ Done /\ Fetched
  /\ TaggedAt("lyric") = {} /\ TaggedAt("song") = {} /\ TaggedAt("top_hit") # {}
  /\ HasLimit /\ SuppliedLimit = 1
  /\ logged = 0
  /\ result.kind = "array" /\ Len(result.value) = 1

\* a payload with none of the three sections, limit 1: the empty sequence
C6_WitnessAllMissing ==
  /\ Done /\ Fetched
  /\ \A t \in Tags : TaggedAt(t) = {}
  /\ Len(data.response.sections) = 2
  /\ HasLimit /\ SuppliedLimit = 1
  /\ logged = 0
  /\ result = [kind |-> "array", value |-> <<>>]

----------------------------------------------------------------------------
(* Artists *)

\* C7 (as stated): a retained song entry without primary-artists field does
\* not abort the call; the entry is projected with an empty artist sequence
\* and the other entries are returned as usual (here: under a limit that
\* does not cut the output).
C7_MissingArtistsProjectedEmpty ==
  ( /\ Done /\ Fetched
    /\ HasLimit /\ SuppliedLimit >= Len(SelectedSongEntries) /\ SuppliedLimit >= 1
    /\ \E e \in Range(SelectedSongEntries) : ~WellFormed(e) )
    => /\ logged = 0
       /\ result.kind = "array"
       /\ Len(result.value) = Len(SelectedSongEntries)
       /\ \A i \in 1..Len(result.value) :
            /\ RecordOf(result.value[i], SelectedSongEntries[i])
            /\ ~WellFormed(SelectedSongEntries[i]) => result.value[i].artist = <<>>

\* C8: the artist sequence of the i-th returned record has the length of the
\* primary-artist sequence of the i-th selected song entry, and its j-th
\* element holds the name, verification flag, header image URL and profile
\* image URL of the j-th primary artist, and nothing else.
C8_ArtistOrderPreserved ==
  (Done /\ Fetched /\ result.kind = "array") =>
    /\ Len(result.value) <= Len(SelectedSongEntries)
    /\ \A i \in 1..Len(result.value) :
         LET pa == SelectedSongEntries[i].result.primary_artists
             ar == result.value[i].artist
         IN  /\ Len(ar) = Len(pa)
             /\ \A j \in 1..Len(ar) :
                  /\ DOMAIN ar[j] = {"name", "is_verified", "header_image_url", "image_url"}
                  /\ ar[j].name = pa[j].name
                  /\ ar[j].is_verified = pa[j].is_verified
                  /\ ar[j].header_image_url = pa[j].header_image_url
                  /\ ar[j].image_url = pa[j].image_url

\* a returned song with the primary artists A, B, C, in that order
C8_Witness ==
  /\ Done /\ Fetched /\ result.kind = "array"
  /\ \E i \in 1..Len(result.value) :
       /\ Len(result.value[i].artist) = 3
       /\ result.value[i].artist[1].name = "A"
       /\ result.value[i].artist[2].name = "B"
       /\ result.value[i].artist[3].name = "C"
       /\ result.value[i].artist[2].is_verified = FALSE

\* C10: all retained songs are projected before the limit is looked at: one
\* retained entry without primary artists makes the call return undefined,
\* also when it stands at or after the limit; once an error was caught no
\* sequence is returned.
C10_AllOrNothing ==
  /\ ( /\ Done /\ Fetched
       /\ \E e \in Range(SelectedSongEntries) : ~WellFormed(e) )
       => /\ result.kind = "undefined"
          /\ logged = 1
  /\ logged >= 1 => result.kind = "undefined"

\* limit 1, a well-formed song first and a song without primary artists
\* second: undefined, although the first record had been built
C10_Witness ==
  /\ Done /\ Fetched
  /\ HasLimit /\ SuppliedLimit = 1
  /\ Len(SelectedSongEntries) = 2
  /\ WellFormed(SelectedSongEntries[1])
  /\ ~WellFormed(SelectedSongEntries[2])
  /\ Len(songsResponse) = 1
  /\ result.kind = "undefined"


====
